---- MODULE Spec2Model ----
(***************************************************************************)
(* Digital health records backend: the upload pipeline of                  *)
(* controllers/healthRecordController.js, the verification endpoints and   *)
(* record deletion, over one record of the Record Store, together with the *)
(* services they call (documentAIService, groqService, retellService,      *)
(* s3Service).  Every asynchronous handler is cut at its awaits; the       *)
(* outcome of each external request is chosen by the environment.          *)
(***************************************************************************)
EXTENDS Integers, Sequences, FiniteSets, TLC

VARIABLES
    rec,      \* the record of the Record Store (NoRec when absent)
    fs,       \* paths that exist on the local file system
    s3,       \* object URLs present in the remote bucket
    calls,    \* the call platform: call id -> state of that call
    up,       \* uploadHealthRecord: position and locals
    sq,       \* getCallVerificationStatus: position and snapshot
    vq,       \* initiateCallVerification: position and loaded document
    resp,     \* response sent by the step just taken (NoResp when none)
    ext,      \* counters of requests made to external services
    req,      \* request taken up by the step just taken (NoReq when none)
    sent,     \* requests the step just taken made to external services
    agent     \* the calling agent's prompt, and the initiations that use it

vars == <<rec, fs, s3, calls, up, sq, vq, resp, ext, req, sent, agent>>

----------------------------------------------------------------------------
(* Bounds of the model *)

MaxSlowFetches == 1    \* status fetches of one poll loop that take extra time
FetchLatency == 1      \* extra seconds taken by a slow status fetch
MaxRequests == 1       \* requests served by the per-record endpoints
RealTextLength == 1000 \* characters of text a real extraction returns

(* Program constants, in seconds *)

MaxWaitTime == 180
PollInterval == 5

(* characters of extracted text shown by getHealthRecordById *)

PreviewLimit == 300

(* max_call_duration_ms written to the agent, in milliseconds *)

MaxCallDuration == 180000    \* 3 * 60 * 1000

----------------------------------------------------------------------------
(* Values *)

NoRec == [none |-> TRUE]
NoSD == [kind |-> "unset"]
NoPatient == [absent |-> TRUE]
NoResp == [op |-> "none", code |-> 0]
NoReq == [op |-> "none", user |-> "none"]
NoneSent == <<>>

\* req.user._id of the requests of the model; the record belongs to "owner"
Users == {"owner", "other"}

LocalFilePath == "src/uploads/1700000000000-1.pdf"   \* req.file.path
LocalFileUrl == "/uploads/1700000000000-1.pdf"
S3Location == "https://bucket.s3.amazonaws.com/1700000000001-scan.pdf"

Phones == {"", " ", "+10000000000"}
Names == {"Alice"}
Extensions == {".pdf", ".png", ".txt"}

\* one call for the upload and one for each request that may start one
CallIds == 1..(MaxRequests + 1)

\* the phone taken as typed
TrimMissing(s) == s

\* String.prototype.trim on the phones of the model
Trim(s) == IF s = " " THEN "" ELSE s

\* JavaScript truthiness of a string
Truthy(s) == s # ""

\* String.prototype.includes('amazonaws.com') on the references of the model
IncludesAmazonaws(url) == url = S3Location

\* path.basename(req.file.path) prefixed with /uploads/
LocalReference(p) == IF p = LocalFilePath THEN LocalFileUrl ELSE p

\* fs.existsSync
ExistsSync(p, files) == p \in files

----------------------------------------------------------------------------
(* documentAIService *)

ExtractionOutcomes == {"ok", "engine_error", "not_configured"}

getMockPdfData == "mock_pdf"
getMockHandwrittenData == "mock_handwritten"

\* a record without extractedData
NoData == "none"

\* a parser that answers a failure with nothing
parsePdfDocumentEmpty(outcome) ==
    IF outcome = "ok" THEN [threw |-> FALSE, data |-> "real"]
    ELSE [threw |-> FALSE, data |-> NoData]

\* parsePdfDocument: every error is caught inside and answered with mock data
parsePdfDocument(outcome) ==
    IF outcome = "ok" THEN [threw |-> FALSE, data |-> "real"]
    ELSE [threw |-> FALSE, data |-> getMockPdfData]

\* parseHandwrittenDocument: same shape for images
parseHandwrittenDocument(outcome) ==
    IF outcome = "ok" THEN [threw |-> FALSE, data |-> "real"]
    ELSE [threw |-> FALSE, data |-> getMockHandwrittenData]

\* the request made to Document AI: none when the client is not configured
ExtractionRequests(outcome) ==
    IF outcome = "not_configured" THEN NoneSent ELSE <<"process_document">>

\* uploadHealthRecord, the try/catch around the parse call: the fallback
\* branch runs only when the service raises
ExtractStage(extension, outcome) ==
    LET r == IF extension = ".pdf" THEN parsePdfDocument(outcome)
             ELSE parseHandwrittenDocument(outcome)
    IN  IF r.threw
        THEN [source |-> "mock",
              data |-> IF extension = ".pdf" THEN getMockPdfData
                       ELSE getMockHandwrittenData]
        ELSE [source |-> "google", data |-> r.data]

----------------------------------------------------------------------------
(* groqService.processHealthRecord *)

\* (a missing API key is answered like a failed request)
StructuringOutcomes ==
    {"json_patient", "json_plain", "unparsable", "api_error"}

getMockStructuredData(ctxName, ctxPhone) ==
    [kind |-> "mock",
     patient |-> [name |-> IF Truthy(ctxName) THEN ctxName ELSE "John Doe",
                  phone |-> IF Truthy(ctxPhone) THEN ctxPhone
                            ELSE "555-123-4567"],
     error |-> FALSE]

\* the API answer is parsed between the first "{" and the last "}"; an
\* unparsable answer yields an error object, a failed request or a missing
\* key yields the mock record; nothing is raised to the caller
processHealthRecord(outcome, ctxName, ctxPhone) ==
    CASE outcome = "json_patient" ->
           [threw |-> FALSE,
            value |-> [kind |-> "groq",
                       patient |-> [name |-> "A. Smith", phone |-> ctxPhone],
                       error |-> FALSE]]
      [] outcome = "json_plain" ->
           [threw |-> FALSE,
            value |-> [kind |-> "groq", patient |-> NoPatient,
                       error |-> FALSE]]
      [] outcome = "unparsable" ->
           [threw |-> FALSE,
            value |-> [kind |-> "parse_error", patient |-> NoPatient,
                       error |-> TRUE]]
      [] OTHER ->
           [threw |-> FALSE, value |-> getMockStructuredData(ctxName, ctxPhone)]

\* uploadHealthRecord, the try/catch around processHealthRecord
\* (groqContext: patientName || 'Not provided', patientPhone || 'Not provided')
StructureStage(outcome, name, phone) ==
    LET r == processHealthRecord(outcome,
                 IF Truthy(name) THEN name ELSE "Not provided",
                 IF Truthy(phone) THEN phone ELSE "Not provided")
    IN  IF r.threw
        THEN [source |-> "mock",
              value |-> [kind |-> "fallback",
                         patient |-> [name |-> IF Truthy(name) THEN name
                                               ELSE "Unknown Patient",
                                      phone |-> IF Truthy(phone) THEN phone
                                                ELSE "Not provided"],
                         error |-> TRUE]]
        ELSE [source |-> "groq", value |-> r.value]

----------------------------------------------------------------------------
(* groqService.processTranscript and retellService.processCallTranscript *)

Correction(f, c) == [field |-> f, correct |-> c]

AnalyzerOutcomes ==
    {"name_fix", "diagnosis_fix", "mixed", "clean", "unparsable",
     "request_failed"}

NoAnalysis == [absent |-> TRUE]

\* processTranscript: the parsed answer of the model, the fixed record for an
\* unparsable answer, or an exception when the request fails
processTranscript(outcome) ==
    CASE outcome = "name_fix" ->
           [threw |-> FALSE,
            corrections |-> <<Correction("patientName", "Robert")>>,
            additionalInfo |-> "allergic to latex", summary |-> "one fix",
            verificationComplete |-> TRUE]
      [] outcome = "diagnosis_fix" ->
           [threw |-> FALSE,
            corrections |-> <<Correction("diagnosis", "Migraine")>>,
            additionalInfo |-> "", summary |-> "one fix",
            verificationComplete |-> FALSE]
      [] outcome = "mixed" ->
           [threw |-> FALSE,
            corrections |-> <<Correction("patientName", ""),
                              Correction("patientPhone", "+10000000001"),
                              Correction("diagnosis", "Migraine")>>,
            additionalInfo |-> "", summary |-> "fixes",
            verificationComplete |-> FALSE]
      [] outcome = "clean" ->
           [threw |-> FALSE, corrections |-> <<>>,
            additionalInfo |-> "allergic to latex", summary |-> "confirmed",
            verificationComplete |-> TRUE]
      [] outcome = "unparsable" ->
           [threw |-> FALSE, corrections |-> <<>>,
            additionalInfo |-> "Error: Could not parse transcript analysis",
            summary |-> "Verification analysis failed",
            verificationComplete |-> FALSE]
      [] OTHER ->
           [threw |-> TRUE, corrections |-> <<>>, additionalInfo |-> "",
            summary |-> "", verificationComplete |-> FALSE]

\* processCallTranscript(callData): callData carries a transcript here.  The
\* verdict read is result.verificationSuccessful, a field processTranscript
\* never sets, so it comes from callAnalysis.call_successful alone.
processCallTranscript(callData, outcome) ==
    LET result == processTranscript(outcome)
    IN  IF callData.transcript = "none" \/ result.threw
        THEN [success |-> FALSE, corrections |-> <<>>, additionalInfo |-> "",
              verificationSuccessful |-> FALSE, summary |-> ""]
        ELSE [success |-> TRUE, corrections |-> result.corrections,
              additionalInfo |-> result.additionalInfo,
              verificationSuccessful |-> callData.callSuccessful,
              summary |-> result.summary]
----------------------------------------------------------------------------
(* The call platform and retellService *)

NoCall ==
    [status |-> "none", transcript |-> "none", callSuccessful |-> FALSE,
     maxDuration |-> 0]

TranscriptKinds == {"text"}

FreeCallIds == {c \in CallIds : calls[c].status = "none"}

\* the requests of one initiation, in the order they are awaited
InitiationSteps ==
    <<"update_voice", "update_prompt", "update_max_duration",
      "create_phone_call">>

\* the same requests when the platform rejects them
InitiationRejections ==
    <<"update_voice_rejected", "update_prompt_rejected",
      "update_max_duration_rejected", "create_phone_call_rejected">>

\* the request of an initiation that fails (0: none does)
FailurePoints == 0..Len(InitiationSteps)

\* an initiation that goes on after a rejected agent update
initiateVerificationCallUnchecked(phone, failAt, newId) ==
    IF ~Truthy(phone)
    THEN [threw |-> TRUE, callId |-> 0, status |-> "none",
          maxCallDuration |-> 0,
          requests |-> NoneSent]
    ELSE IF failAt = Len(InitiationSteps)
    THEN [threw |-> TRUE, callId |-> 0, status |-> "none",
          maxCallDuration |-> 0,
          requests |-> SubSeq(InitiationSteps, 1, failAt - 1)
                          \o <<InitiationRejections[failAt]>>]
    ELSE [threw |-> FALSE, callId |-> newId, status |-> "registered",
          maxCallDuration |-> MaxCallDuration,
          requests |-> [i \in 1..Len(InitiationSteps) |->
                           IF i = failAt THEN InitiationRejections[i]
                           ELSE InitiationSteps[i]]]

\* an initiation that leaves the agent's duration limit at one hour
initiateVerificationCallUnlimited(phone, failAt, newId) ==
    IF ~Truthy(phone)
    THEN [threw |-> TRUE, callId |-> 0, status |-> "none",
          maxCallDuration |-> 0,
          requests |-> NoneSent]
    ELSE IF failAt # 0
    THEN [threw |-> TRUE, callId |-> 0, status |-> "none",
          maxCallDuration |-> 0,
          requests |-> SubSeq(InitiationSteps, 1, failAt - 1)
                          \o <<InitiationRejections[failAt]>>]
    ELSE [threw |-> FALSE, callId |-> newId, status |-> "registered",
          maxCallDuration |-> 60 * 60 * 1000,
          requests |-> InitiationSteps]

\* initiateVerificationCall(data): raises on an empty phone before any
\* request, and at the first of the three agent updates or the
\* create-phone-call request that fails; otherwise the platform registers a
\* new call (call_status || 'registered').  requests: those that were sent,
\* the last one marked when it was rejected.
initiateVerificationCall(phone, failAt, newId) ==
    IF ~Truthy(phone)
    THEN [threw |-> TRUE, callId |-> 0, status |-> "none",
          maxCallDuration |-> 0,
          requests |-> NoneSent]
    ELSE IF failAt # 0
    THEN [threw |-> TRUE, callId |-> 0, status |-> "none",
          maxCallDuration |-> 0,
          requests |-> SubSeq(InitiationSteps, 1, failAt - 1)
                          \o <<InitiationRejections[failAt]>>]
    ELSE [threw |-> FALSE, callId |-> newId, status |-> "registered",
          maxCallDuration |-> MaxCallDuration,
          requests |-> InitiationSteps]

\* getCallStatus(callId) when the request succeeds: transcripts are read only
\* for an ended or failed call
getCallStatus(callId) ==
    LET c == calls[callId]
    IN  [status |-> c.status,
         transcript |-> IF c.status \in {"ended", "error"} THEN c.transcript
                        ELSE "none",
         callSuccessful |-> c.callSuccessful]

NoCallData == [status |-> "none", transcript |-> "none",
               callSuccessful |-> FALSE]

\* the platform moves a call forward: registered -> ongoing -> ended | error
CallProgress ==
    \E c \in CallIds :
        /\ calls[c].status \in {"registered", "ongoing"}
        /\ \/ /\ calls[c].status = "registered"
              /\ calls' = [calls EXCEPT ![c].status = "ongoing"]
           \/ \E st \in {"ended", "error"}, tr \in TranscriptKinds \cup {"none"},
                 ok \in BOOLEAN :
                 /\ (tr = "none" => ~ok)
                 /\ calls' = [calls EXCEPT ![c] =
                        [status |-> st, transcript |-> tr,
                         callSuccessful |-> ok,
                         maxDuration |-> calls[c].maxDuration]]
        /\ resp' = NoResp
        /\ req' = NoReq
        /\ sent' = NoneSent
        /\ UNCHANGED <<rec, fs, s3, up, sq, vq, ext, agent>>

----------------------------------------------------------------------------
(* The Record Store: one record *)

Exists == rec # NoRec

\* the Node process of server.js is there to run handlers
Alive == ext.host # "killed"

\* HealthRecord.create of uploadHealthRecord; the schema trims patientPhone
CreateRecord(name, phone, extracted) ==
    [user |-> "owner",
     patientName |-> name,
     patientPhone |-> Trim(phone),
     description |-> <<>>,
     extractedData |-> extracted.data,
     docSource |-> extracted.source,
     groqSource |-> "groq",
     structuredData |-> NoSD,
     fileUrl |-> "",
     filePath |-> "",
     storageLocation |-> "",
     processingStatus |-> "document_ai_complete",
     vc |-> [callId |-> 0, status |-> "not_initiated", endTime |-> FALSE,
             transcript |-> "none", verificationComplete |-> FALSE,
             corrections |-> <<>>, additionalInfo |-> "", summary |-> ""]]

\* HealthRecord.findByIdAndUpdate: no effect when the record is gone
FindByIdAndUpdate(r, updated) == IF r = NoRec THEN NoRec ELSE updated

\* an update that stores the call and leaves processingStatus alone
WithCallInfoOnly(r, result) ==
    [r EXCEPT !.vc.callId = result.callId,
              !.vc.status = result.status]

\* the update issued after a successful initiation (both callers)
WithCallInfo(r, result) ==
    [r EXCEPT !.vc.callId = result.callId,
              !.vc.status = result.status,
              !.processingStatus = "verification_initiated"]

----------------------------------------------------------------------------
(* Initial state *)

UpIdle ==
    [pc |-> "idle", phone |-> "", name |-> "",
     docSource |-> "", groqSource |-> "", verificationCallId |-> 0,
     callEnded |-> FALSE,
     elapsed |-> 0, loopFetches |-> 0, finalFetches |-> 0, slow |-> 0,
     initiations |-> 0, callTranscript |-> "none",
     completeCallData |-> NoCallData, analyzed |-> FALSE,
     structuredData |-> NoSD, fileUrl |-> "", archived |-> FALSE,
     finalStatus |-> "", code |-> 0, corrections |-> <<>>]

SqIdle == [pc |-> "idle", doc |-> NoRec]

\* records whose verification calls are initiated side by side
Records == {"r1", "r2", "r3"}

\* the data of each record that the prompt is generated from
Documents ==
    [r \in Records |->
        [patientName |-> CASE r = "r1" -> "Alice" [] r = "r2" -> "Bob"
                           [] OTHER -> ""]]

NoPrompt == [patientName |-> "none"]

\* generateVerificationPrompt(data): the script names the patient
generateVerificationPrompt(data) ==
    [patientName |-> IF Truthy(data.patientName) THEN data.patientName
                     ELSE "Not provided"]

\* the agent before any initiation: prompt: general_prompt of the one LLM
\* (RETELL_LLM_ID); pc: how far each initiation has got; script: the prompt
\* the agent had when each call was created
AgentIdle ==
    [prompt |-> NoPrompt,
     pc |-> [r \in Records |-> "start"],
     script |-> [r \in Records |-> NoPrompt]]
VqIdle == [pc |-> "idle", phone |-> "", doc |-> NoRec]

Init ==
    /\ rec = NoRec
    /\ fs = {}
    /\ s3 = {}
    /\ calls = [c \in CallIds |-> NoCall]
    /\ up = UpIdle
    /\ sq = SqIdle
    /\ vq = VqIdle
    /\ resp = NoResp
    /\ ext = [s3Deletes |-> 0, requests |-> 0, host |-> "running"]
    /\ req = NoReq
    /\ sent = NoneSent
    /\ agent = AgentIdle
----------------------------------------------------------------------------
(* Local files and s3Service *)

\* a cleanup that leaves the file where it is
cleanupLocalFileKeeps(filePath, files) == files

\* cleanupLocalFile(filePath): unlink when the path is set and exists
cleanupLocalFile(filePath, files) ==
    IF Truthy(filePath) /\ ExistsSync(filePath, files)
    THEN files \ {filePath} ELSE files

\* an upload that unlinks the local file whatever the put answered
uploadFileToS3UnlinksAlways(filePath, files, putOk) ==
    IF ~ExistsSync(filePath, files) \/ ~putOk
    THEN [threw |-> TRUE, location |-> "", files |-> files \ {filePath}]
    ELSE [threw |-> FALSE, location |-> S3Location,
          files |-> files \ {filePath}]

\* uploadFileToS3: raises when the file is missing or the put fails; after a
\* successful put the local file is unlinked and the object URL returned
uploadFileToS3(filePath, files, putOk) ==
    IF ~ExistsSync(filePath, files) \/ ~putOk
    THEN [threw |-> TRUE, location |-> "", files |-> files]
    ELSE [threw |-> FALSE, location |-> S3Location,
          files |-> files \ {filePath}]

----------------------------------------------------------------------------
(* uploadHealthRecord *)

SupportedExtensions == {".pdf", ".jpg", ".jpeg", ".png"}

\* the media types a request may declare for its file
Mimetypes == {"application/pdf", "image/png", "text/plain"}

\* fileFilter of the upload route: images and PDFs only, by declared type
fileFilter(mimetype) ==
    mimetype \in {"application/pdf", "image/jpeg", "image/png", "image/jpg"}

\* the upload request as the route receives it
UploadRequest(hasFile, onDisk, mimetype, extension) ==
    [op |-> "upload", user |-> "owner", hasFile |-> hasFile,
     onDisk |-> onDisk, mimetype |-> mimetype, extension |-> extension]

\* a loop that still starts an iteration when the ceiling is just reached
LoopContinuesAtCeiling(callEnded, elapsed) ==
    ~callEnded /\ elapsed <= MaxWaitTime

\* while (!callEnded && (Date.now() - startTime) < maxWaitTime)
LoopContinues(callEnded, elapsed) == ~callEnded /\ elapsed < MaxWaitTime

\* a loop left only by an ended call
AfterPollUntilEnded(callEnded, elapsed) ==
    IF ~callEnded THEN "poll" ELSE "structure"

\* a loop always followed by the extra status fetch
AfterPollAlwaysFinal(callEnded, elapsed) ==
    IF LoopContinues(callEnded, elapsed) THEN "poll" ELSE "final"

\* where the pipeline goes once an iteration (or the initiation) is over
AfterPoll(callEnded, elapsed) ==
    IF LoopContinues(callEnded, elapsed) THEN "poll"
    ELSE IF ~callEnded THEN "final" ELSE "structure"

\* a poll loop entered whatever the initiation returned
AfterInitiationPolls(verificationCallId) == AfterPoll(FALSE, 0)

\* if (verificationCallId): the poll loop is entered only with a call id
AfterInitiation(verificationCallId) ==
    IF verificationCallId # 0 THEN AfterPoll(FALSE, 0) ELSE "structure"

\* validation, extraction and creation of the record: from the request to
\* the first await on the verification client (or on the structuring client)
UploadStart ==
    /\ Alive
    /\ UNCHANGED agent
    /\ up.pc = "idle"
    /\ \E hasFile \in BOOLEAN, onDisk \in BOOLEAN, schemaValid \in BOOLEAN,
          extension \in Extensions, phone \in Phones, name \in Names,
          outcome \in ExtractionOutcomes, mimetype \in Mimetypes :
          /\ req' = UploadRequest(hasFile, onDisk, mimetype, extension)
          /\ IF ~hasFile
             THEN /\ up' = [up EXCEPT !.pc = "done", !.code = 400]
                  /\ sent' = NoneSent
                  /\ UNCHANGED <<rec, fs>>
             ELSE IF ~fileFilter(mimetype)
             THEN \* multer hands the filter's error to the error middleware of
                  \* server.js, which answers 500; nothing was stored
                  /\ up' = [up EXCEPT !.pc = "done", !.code = 500]
                  /\ sent' = NoneSent
                  /\ UNCHANGED <<rec, fs>>
             ELSE IF ~onDisk
             THEN /\ up' = [up EXCEPT !.pc = "done", !.code = 400]
                  /\ sent' = NoneSent
                  /\ UNCHANGED <<rec, fs>>
             ELSE IF extension \notin SupportedExtensions
             THEN \* the stored file is unlinked again
                  /\ up' = [up EXCEPT !.pc = "done", !.code = 400]
                  /\ fs' = (fs \cup {LocalFilePath}) \ {LocalFilePath}
                  /\ sent' = NoneSent
                  /\ UNCHANGED rec
             ELSE LET extracted == ExtractStage(extension, outcome)
                  IN  IF ~schemaValid
                      THEN \* HealthRecord.create raises: outer catch
                           /\ up' = [up EXCEPT !.pc = "done", !.code = 500]
                           /\ fs' = cleanupLocalFile(LocalFilePath,
                                                     fs \cup {LocalFilePath})
                           /\ sent' = ExtractionRequests(outcome)
                           /\ UNCHANGED rec
                      ELSE /\ rec' = CreateRecord(name, phone, extracted)
                           /\ fs' = fs \cup {LocalFilePath}
                           /\ sent' = ExtractionRequests(outcome)
                           /\ up' = [up EXCEPT
                                  !.pc = IF Truthy(phone) /\ Trim(phone) # ""
                                         THEN "initiate" ELSE "structure",
                                  !.phone = phone, !.name = name,
                                  !.docSource = extracted.source,
                                  !.groqSource = "groq"]
    /\ resp' = NoResp
    /\ UNCHANGED <<s3, calls, sq, vq, ext>>

\* STEP 1: the verification call is requested and its id persisted
UploadInitiate ==
    /\ Alive
    /\ UNCHANGED agent
    /\ up.pc = "initiate"
    /\ \E failAt \in FailurePoints :
          LET newId == IF FreeCallIds = {} THEN 0
                       ELSE CHOOSE c \in FreeCallIds :
                                \A d \in FreeCallIds : c <= d
              result == initiateVerificationCall(up.phone, failAt, newId)
          IN  /\ ~result.threw => newId # 0
              /\ sent' = result.requests
              /\ IF result.threw
                 THEN /\ up' = [up EXCEPT !.pc = AfterInitiation(0),
                                          !.initiations = @ + 1]
                      /\ UNCHANGED <<rec, calls>>
                 ELSE /\ calls' = [calls EXCEPT
                                ![result.callId].status = result.status,
                                ![result.callId].maxDuration =
                                    result.maxCallDuration]
                      /\ rec' = FindByIdAndUpdate(rec, WithCallInfo(rec, result))
                      /\ up' = [up EXCEPT
                             !.pc = AfterInitiation(result.callId),
                             !.initiations = @ + 1,
                             !.verificationCallId = result.callId]
    /\ resp' = NoResp
    /\ req' = NoReq
    /\ UNCHANGED <<fs, s3, sq, vq, ext>>

\* the update issued by the poll loop when the call has ended with a transcript
WithEndedCall(r, callStatus) ==
    [r EXCEPT !.vc.endTime = TRUE,
              !.vc.status = callStatus.status,
              !.vc.transcript = callStatus.transcript,
              !.processingStatus = "verification_ended"]

\* STEP 2, one iteration: wait 5 seconds, fetch the status, record an end
UploadPoll ==
    /\ Alive
    /\ UNCHANGED agent
    /\ up.pc = "poll"
    /\ LoopContinues(up.callEnded, up.elapsed)
    /\ \E fetchOk \in BOOLEAN, slowFetch \in BOOLEAN :
          LET callStatus == getCallStatus(up.verificationCallId)
              ended == fetchOk /\ callStatus.status \in {"ended", "error"}
              hasTranscript == ended /\ callStatus.transcript # "none"
              elapsed == up.elapsed + PollInterval
                             + (IF slowFetch THEN FetchLatency ELSE 0)
          IN  /\ slowFetch => up.slow < MaxSlowFetches
              /\ up' = [up EXCEPT
                     \* the clock and counters of the loop go with the loop
                     \* when it stops on an ended call
                     !.elapsed = IF ended THEN 0 ELSE elapsed,
                     !.slow = IF ended THEN 0
                              ELSE IF slowFetch THEN @ + 1 ELSE @,
                     !.loopFetches = IF ended THEN 0 ELSE @ + 1,
                     !.callEnded = ended,
                     !.completeCallData = IF ended THEN callStatus ELSE @,
                     !.callTranscript = IF hasTranscript
                                        THEN callStatus.transcript ELSE @,
                     !.pc = AfterPoll(ended, elapsed)]
              /\ rec' = IF hasTranscript
                        THEN FindByIdAndUpdate(rec, WithEndedCall(rec, callStatus))
                        ELSE rec
    /\ resp' = NoResp
    /\ req' = NoReq
    /\ sent' = <<"get_call">>
    /\ UNCHANGED <<fs, s3, calls, sq, vq, ext>>

\* the one status fetch made after the loop has run out of time
UploadFinalFetch ==
    /\ Alive
    /\ UNCHANGED agent
    /\ up.pc = "final"
    /\ \E fetchOk \in BOOLEAN :
          LET callStatus == getCallStatus(up.verificationCallId)
          IN  up' = [up EXCEPT
                  !.finalFetches = @ + 1,
                  !.completeCallData = IF fetchOk THEN callStatus ELSE @,
                  !.callTranscript =
                      IF fetchOk /\ callStatus.transcript # "none"
                      THEN callStatus.transcript ELSE @,
                  !.pc = "structure"]
    /\ resp' = NoResp
    /\ req' = NoReq
    /\ sent' = <<"get_call">>
    /\ UNCHANGED <<rec, fs, s3, calls, sq, vq, ext>>

\* STEP 3: structuring of the extracted text
UploadStructure ==
    /\ Alive
    /\ UNCHANGED agent
    /\ up.pc = "structure"
    /\ \E outcome \in StructuringOutcomes :
          LET structured == StructureStage(outcome, up.name, up.phone)
          IN  up' = [up EXCEPT
                  !.structuredData = structured.value,
                  !.groqSource = structured.source,
                  !.elapsed = 0, !.slow = 0,
                  !.loopFetches = 0, !.finalFetches = 0,
                  !.pc = IF up.callTranscript # "none" THEN "analyze"
                         ELSE "archive"]
    /\ resp' = NoResp
    /\ req' = NoReq
    /\ sent' = <<"chat_completion">>
    /\ UNCHANGED <<rec, fs, s3, calls, sq, vq, ext>>

AllowList == {"patientName", "patientPhone"}

\* a loop that writes corrections only to a record already verified
ApplyToRecordIfVerified(r, corrections) ==
    IF ~r.vc.verificationComplete \/ corrections = <<>> THEN r
    ELSE LET c == corrections[Len(corrections)]
         IN  IF c.field = "patientName"
             THEN [r EXCEPT !.patientName = c.correct]
             ELSE r

RECURSIVE ApplyToRecord(_, _)
\* uploadHealthRecord, the loop over the corrections: an allow-listed field
\* with a non-empty corrected value is written to the record
ApplyToRecord(r, corrections) ==
    IF corrections = <<>> THEN r
    ELSE LET c == Head(corrections)
             r1 == IF Truthy(c.field) /\ Truthy(c.correct)
                      /\ c.field \in AllowList
                   THEN IF c.field = "patientName"
                        THEN [r EXCEPT !.patientName = c.correct]
                        ELSE [r EXCEPT !.patientPhone = c.correct]
                   ELSE r
         IN  ApplyToRecord(r1, Tail(corrections))

RECURSIVE ApplyToStructured(_, _)
\* the same loop, on the local structuredData when it has a patient object
ApplyToStructured(sd, corrections) ==
    IF corrections = <<>> THEN sd
    ELSE LET c == Head(corrections)
             sd1 == IF Truthy(c.field) /\ Truthy(c.correct)
                       /\ c.field \in AllowList
                       /\ sd # NoSD /\ sd.patient # NoPatient
                    THEN IF c.field = "patientName"
                         THEN [sd EXCEPT !.patient.name = c.correct]
                         ELSE [sd EXCEPT !.patient.phone = c.correct]
                    ELSE sd
         IN  ApplyToStructured(sd1, Tail(corrections))

\* a correction the loop applies: allow-listed field, non-empty value
Applicable(c) ==
    Truthy(c.field) /\ Truthy(c.correct) /\ c.field \in AllowList

\* verification fields that keep only the corrections that were applied
WithAnalysisApplied(r, result) ==
    [r EXCEPT !.vc.verificationComplete = result.verificationSuccessful,
              !.vc.corrections = SelectSeq(result.corrections, Applicable),
              !.vc.additionalInfo = result.additionalInfo,
              !.vc.summary = result.summary]

\* the verification fields written after the corrections
WithAnalysis(r, result) ==
    [r EXCEPT !.vc.verificationComplete = result.verificationSuccessful,
              !.vc.corrections = result.corrections,
              !.vc.additionalInfo = result.additionalInfo,
              !.vc.summary = result.summary]

\* the updates of STEP 4, all inside `if (corrections.length > 0)`
AfterAnalysis(r, result) ==
    IF Len(result.corrections) > 0
    THEN WithAnalysis(ApplyToRecord(r, result.corrections), result)
    ELSE r

\* STEP 4: the transcript is analysed; corrections and verification fields
\* are written only when the analysis returned at least one correction
UploadAnalyze ==
    /\ Alive
    /\ UNCHANGED agent
    /\ up.pc = "analyze"
    /\ \E outcome \in AnalyzerOutcomes :
          LET result == processCallTranscript(up.completeCallData, outcome)
              some == Len(result.corrections) > 0
          IN  /\ up' = [up EXCEPT
                     !.analyzed = TRUE,
                     !.corrections = result.corrections,
                     !.structuredData =
                         IF some THEN ApplyToStructured(@, result.corrections)
                         ELSE @,
                     !.pc = "archive"]
              /\ rec' = FindByIdAndUpdate(rec, AfterAnalysis(rec, result))
    /\ resp' = NoResp
    /\ req' = NoReq
    /\ sent' = <<"chat_completion">>
    /\ UNCHANGED <<fs, s3, calls, sq, vq, ext>>

\* STEP 5: archival, with the local reference as fallback
UploadArchive ==
    /\ Alive
    /\ UNCHANGED agent
    /\ up.pc = "archive"
    /\ \E putOk \in BOOLEAN :
          LET r == uploadFileToS3(LocalFilePath, fs, putOk)
          IN  IF r.threw
              THEN /\ up' = [up EXCEPT !.pc = "finalize",
                                       !.fileUrl = LocalReference(LocalFilePath)]
                   /\ fs' = r.files
                   /\ UNCHANGED s3
              ELSE /\ up' = [up EXCEPT !.pc = "finalize", !.archived = TRUE,
                                       !.fileUrl = r.location]
                   /\ fs' = r.files \ {LocalFilePath}
                   /\ s3' = s3 \cup {r.location}
    /\ resp' = NoResp
    /\ req' = NoReq
    /\ sent' = <<"s3_upload">>
    /\ UNCHANGED <<rec, calls, sq, vq, ext>>

\* a final status that ignores the analysis
FinalStatusProcessed(analyzed) == "processing_complete"

\* transcriptResult ? 'verification_complete' : 'processing_complete'
FinalStatus(analyzed) ==
    IF analyzed THEN "verification_complete" ELSE "processing_complete"

\* a final update that leaves the storage reference for later
FinalizedWithoutStorage(r, u) ==
    [r EXCEPT !.structuredData = u.structuredData,
              !.docSource = u.docSource,
              !.groqSource = u.groqSource,
              !.processingStatus = FinalStatus(u.analyzed)]

\* the single update of STEP 6
Finalized(r, u) ==
    [r EXCEPT !.structuredData = u.structuredData,
              !.fileUrl = u.fileUrl,
              !.filePath = u.fileUrl,
              !.docSource = u.docSource,
              !.groqSource = u.groqSource,
              !.storageLocation = IF IncludesAmazonaws(u.fileUrl) THEN "s3"
                                  ELSE "local",
              !.processingStatus = FinalStatus(u.analyzed)]

\* STEP 6: final update, re-read and response; a record that has vanished
\* makes the re-read fail, which the outer catch answers with 500
UploadFinalize ==
    /\ Alive
    /\ UNCHANGED agent
    /\ up.pc = "finalize"
    /\ rec' = FindByIdAndUpdate(rec, Finalized(rec, up))
    /\ IF Exists
       THEN /\ up' = [UpIdle EXCEPT !.pc = "done", !.code = 201,
                                    !.phone = up.phone,
                                    !.finalStatus = FinalStatus(up.analyzed)]
            /\ UNCHANGED fs
       ELSE /\ up' = [UpIdle EXCEPT !.pc = "done", !.code = 500,
                                    !.phone = up.phone,
                                    !.finalStatus = FinalStatus(up.analyzed)]
            /\ fs' = cleanupLocalFile(LocalFilePath, fs)
    /\ resp' = NoResp
    /\ req' = NoReq
    /\ sent' = NoneSent
    /\ UNCHANGED <<s3, calls, sq, vq, ext>>

Upload ==
    \/ UploadStart \/ UploadInitiate \/ UploadPoll \/ UploadFinalFetch
    \/ UploadStructure \/ UploadAnalyze \/ UploadArchive \/ UploadFinalize
----------------------------------------------------------------------------
(* initiateCallVerification *)

Answer(op, code) == [op |-> op, code |-> code]

Request(op, user) == [op |-> op, user |-> user]

\* a check that lets every requester through
AuthorizedAnyone(r, user) == TRUE

\* healthRecord.user.toString() === req.user._id.toString()
Authorized(r, user) == r.user = user

\* findById, the ownership and in-progress checks, and the phone taken from
\* the request body (saved on the record) when the record has none; doc is
\* the document as findById returned it
VerifyStart ==
    /\ Alive
    /\ UNCHANGED agent
    /\ vq.pc = "idle"
    /\ ext.requests < MaxRequests
    /\ \E user \in Users, bodyPhone \in Phones :
          /\ req' = Request("verify", user)
          /\ IF ~Exists
             THEN resp' = Answer("verify", 404) /\ UNCHANGED <<rec, vq>>
             ELSE IF ~Authorized(rec, user)
             THEN resp' = Answer("verify", 403) /\ UNCHANGED <<rec, vq>>
             ELSE IF rec.vc.status \in {"registered", "ongoing"}
             THEN resp' = Answer("verify", 400) /\ UNCHANGED <<rec, vq>>
             ELSE IF ~Truthy(rec.patientPhone) \/ Trim(rec.patientPhone) = ""
             THEN IF ~Truthy(bodyPhone) \/ Trim(bodyPhone) = ""
                  THEN resp' = Answer("verify", 400) /\ UNCHANGED <<rec, vq>>
                  ELSE /\ rec' = [rec EXCEPT !.patientPhone = Trim(bodyPhone)]
                       /\ vq' = [pc |-> "call", phone |-> Trim(bodyPhone),
                                 doc |-> rec]
                       /\ resp' = NoResp
             ELSE /\ vq' = [pc |-> "call", phone |-> rec.patientPhone,
                            doc |-> rec]
                  /\ resp' = NoResp
                  /\ UNCHANGED rec
    /\ ext' = [ext EXCEPT !.requests = @ + 1]
    /\ sent' = NoneSent
    /\ UNCHANGED <<fs, s3, calls, up, sq>>

\* the call is requested; on success its id and status are persisted
VerifyCall ==
    /\ Alive
    /\ UNCHANGED agent
    /\ vq.pc = "call"
    /\ \E failAt \in FailurePoints :
          LET newId == IF FreeCallIds = {} THEN 0
                       ELSE CHOOSE c \in FreeCallIds :
                                \A d \in FreeCallIds : c <= d
              result == initiateVerificationCall(vq.phone, failAt, newId)
          IN  /\ ~result.threw => newId # 0
              /\ sent' = result.requests
              /\ IF result.threw
                 THEN /\ resp' = Answer("verify", 500)
                      /\ UNCHANGED <<rec, calls>>
                 ELSE /\ calls' = [calls EXCEPT
                                ![result.callId].status = result.status,
                                ![result.callId].maxDuration =
                                    result.maxCallDuration]
                      /\ rec' = FindByIdAndUpdate(rec, WithCallInfo(rec, result))
                      /\ resp' = Answer("verify", 200)
    /\ vq' = VqIdle
    /\ req' = NoReq
    /\ UNCHANGED <<fs, s3, up, sq, ext>>

----------------------------------------------------------------------------
(* getCallVerificationStatus *)

\* res.json of the handler: built from the document held in memory
StatusAnswer(doc) ==
    [op |-> "status", code |-> 200, status |-> doc.vc.status,
     processingStatus |-> doc.processingStatus,
     verificationComplete |-> doc.vc.verificationComplete,
     corrections |-> doc.vc.corrections,
     additionalInfo |-> doc.vc.additionalInfo,
     summary |-> doc.vc.summary,
     endTime |-> doc.vc.endTime]

\* a refresh that leaves out only the calls stored as ended
NeedsRefreshUnlessEnded(status) == status # "ended"

\* ['registered', 'ongoing'].includes(healthRecord.verificationCall.status)
NeedsRefresh(status) == status \in {"registered", "ongoing"}

\* findById and the checks; a terminal stored status is answered at once
StatusStart ==
    /\ Alive
    /\ UNCHANGED agent
    /\ sq.pc = "idle"
    /\ ext.requests < MaxRequests
    /\ \E user \in Users :
          /\ req' = Request("status", user)
          /\ IF ~Exists
             THEN resp' = Answer("status", 404) /\ UNCHANGED sq
             ELSE IF ~Authorized(rec, user)
             THEN resp' = Answer("status", 403) /\ UNCHANGED sq
             ELSE IF rec.vc.callId = 0
             THEN resp' = Answer("status", 404) /\ UNCHANGED sq
             ELSE IF NeedsRefresh(rec.vc.status)
             THEN sq' = [pc |-> "fetch", doc |-> rec] /\ resp' = NoResp
             ELSE resp' = StatusAnswer(rec) /\ UNCHANGED sq
    /\ ext' = [ext EXCEPT !.requests = @ + 1]
    /\ sent' = NoneSent
    /\ UNCHANGED <<rec, fs, s3, calls, up, vq>>

RECURSIVE CorrectionsInto(_, _)
\* updateData[correction.field] = correction.correct for the two patient fields
CorrectionsInto(r, corrections) ==
    IF corrections = <<>> THEN r
    ELSE LET c == Head(corrections)
             r1 == IF c.field = "patientName"
                   THEN [r EXCEPT !.patientName = c.correct]
                   ELSE IF c.field = "patientPhone"
                   THEN [r EXCEPT !.patientPhone = c.correct]
                   ELSE r
         IN  CorrectionsInto(r1, Tail(corrections))

\* updateData applied to the stored record r, computed from the document doc
\* read at the start of the request
StatusUpdate(r, doc, callStatus, outcome) ==
    LET r0 == [r EXCEPT !.vc.status = callStatus.status]
    IN  IF callStatus.status # "ended" THEN r0
        ELSE IF callStatus.transcript = "none"
        THEN [r0 EXCEPT !.vc.endTime = TRUE,
                        !.processingStatus = "verification_ended_no_transcript"]
        ELSE LET result == processCallTranscript(callStatus, outcome)
                 r1 == [WithAnalysis(r0, result) EXCEPT
                           !.vc.endTime = TRUE,
                           !.vc.transcript = callStatus.transcript,
                           !.processingStatus = "verification_complete"]
                 r2 == CorrectionsInto(r1, result.corrections)
             IN  IF Truthy(result.additionalInfo)
                 THEN [r2 EXCEPT !.description =
                          Append(doc.description, result.additionalInfo)]
                 ELSE r2

\* the document in memory after the refresh: status and transcript only
Refreshed(doc, callStatus) ==
    [doc EXCEPT !.vc.status = callStatus.status,
                !.vc.transcript = IF callStatus.status = "ended"
                                     /\ callStatus.transcript # "none"
                                  THEN callStatus.transcript ELSE @]

\* the status is fetched; a changed status is written, with transcript
\* analysis when the call has ended; then the answer is sent
StatusFetch ==
    /\ Alive
    /\ UNCHANGED agent
    /\ sq.pc = "fetch"
    /\ \E fetchOk \in BOOLEAN, outcome \in AnalyzerOutcomes :
          LET doc == sq.doc
              callStatus == getCallStatus(doc.vc.callId)
          IN  IF ~fetchOk \/ callStatus.status = doc.vc.status
              THEN /\ resp' = StatusAnswer(doc)
                   /\ sent' = <<"get_call">>
                   /\ UNCHANGED rec
              ELSE /\ rec' = FindByIdAndUpdate(rec,
                                 StatusUpdate(rec, doc, callStatus, outcome))
                   /\ resp' = StatusAnswer(Refreshed(doc, callStatus))
                   /\ sent' = IF callStatus.status = "ended"
                                 /\ callStatus.transcript # "none"
                              THEN <<"get_call", "chat_completion">>
                              ELSE <<"get_call">>
    /\ sq' = SqIdle
    /\ req' = NoReq
    /\ UNCHANGED <<fs, s3, calls, up, vq, ext>>

----------------------------------------------------------------------------
(* deleteHealthRecord *)

\* deleteFileFromS3: one deleteObject request, which may fail
deleteFileFromS3(fileUrl, objects, deleteOk) ==
    IF deleteOk THEN [threw |-> FALSE, objects |-> objects \ {fileUrl}]
    ELSE [threw |-> TRUE, objects |-> objects]

\* a handler that gives up when the storage refuses the delete
ReleaseOrGiveUp(r, files, objects, deleteOk) ==
    IF Truthy(r.fileUrl) /\ IncludesAmazonaws(r.fileUrl) /\ ~deleteOk
    THEN [rec |-> r, fs |-> files, s3 |-> objects, s3Deletes |-> 1,
          code |-> 500]
    ELSE [rec |-> NoRec, fs |-> files, s3 |-> objects \ {r.fileUrl},
          s3Deletes |-> IF IncludesAmazonaws(r.fileUrl) THEN 1 ELSE 0,
          code |-> 200]

\* the handler once the owner's record is loaded: the stored file is
\* released (remote object, else local path), then the record is deleted
\* whatever the storage answered
ReleaseAndDelete(r, files, objects, deleteOk) ==
    IF Truthy(r.fileUrl) /\ IncludesAmazonaws(r.fileUrl)
    THEN [rec |-> NoRec, fs |-> files,
          s3 |-> deleteFileFromS3(r.fileUrl, objects, deleteOk).objects,
          s3Deletes |-> 1, code |-> 200]
    ELSE IF Truthy(r.filePath) /\ ExistsSync(r.filePath, files)
    THEN [rec |-> NoRec, fs |-> cleanupLocalFile(r.filePath, files),
          s3 |-> objects, s3Deletes |-> 0, code |-> 200]
    ELSE [rec |-> NoRec, fs |-> files, s3 |-> objects, s3Deletes |-> 0,
          code |-> 200]

DeleteHealthRecord ==
    /\ Alive
    /\ UNCHANGED agent
    /\ ext.requests < MaxRequests
    /\ \E user \in Users, deleteOk \in BOOLEAN :
          /\ req' = Request("delete", user)
          /\ IF ~Exists
             THEN /\ resp' = Answer("delete", 404)
                  /\ ext' = [ext EXCEPT !.requests = @ + 1]
                  /\ sent' = NoneSent
                  /\ UNCHANGED <<rec, fs, s3>>
             ELSE IF ~Authorized(rec, user)
             THEN /\ resp' = Answer("delete", 403)
                  /\ ext' = [ext EXCEPT !.requests = @ + 1]
                  /\ sent' = NoneSent
                  /\ UNCHANGED <<rec, fs, s3>>
             ELSE LET d == ReleaseAndDelete(rec, fs, s3, deleteOk)
                  IN  /\ sent' = IF d.s3Deletes = 1 THEN <<"s3_delete">>
                                 ELSE NoneSent
                      /\ rec' = d.rec
                      /\ fs' = d.fs
                      /\ s3' = d.s3
                      /\ ext' = [ext EXCEPT !.requests = @ + 1,
                                            !.s3Deletes = @ + d.s3Deletes]
                      /\ resp' = Answer("delete", d.code)
    /\ UNCHANGED <<calls, up, sq, vq>>

----------------------------------------------------------------------------
(* getHealthRecordById and getFullHealthRecordById *)

\* extractedData.text.length: the two mock texts of documentAIService, or
\* the text of a real extraction
TextLength(data) ==
    CASE data = getMockPdfData -> 110
      [] data = getMockHandwrittenData -> 118
      [] data = NoData -> 0
      [] OTHER -> RealTextLength

\* text.substring(0, 300) + (text.length > 300 ? '...' : ''), by its length
\* and by whether it is the whole text
TextPreview(data) ==
    LET n == TextLength(data)
    IN  [length |-> IF n > PreviewLimit THEN PreviewLimit + 3 ELSE n,
         wholeText |-> n <= PreviewLimit]

\* one entry of the list of getUserHealthRecords
ListedRecord(r) ==
    [description |-> r.description, patientName |-> r.patientName,
     patientPhone |-> r.patientPhone, fileUrl |-> r.fileUrl,
     hasExtractedData |-> r.extractedData # NoData,
     hasStructuredData |-> r.structuredData # NoSD,
     docSource |-> r.docSource, groqSource |-> r.groqSource,
     storageLocation |-> r.storageLocation]

\* HealthRecord.find({ user: req.user._id }) mapped to the listed entries
ListAnswer(r, user) ==
    [op |-> "list", code |-> 200,
     records |-> IF r # NoRec /\ r.user = user THEN <<ListedRecord(r)>>
                 ELSE <<>>]

\* the simplified record: structured data and a summary of the extraction
SimplifiedRecord(r) ==
    [op |-> "get", code |-> 200,
     description |-> r.description, patientName |-> r.patientName,
     patientPhone |-> r.patientPhone, fileUrl |-> r.fileUrl,
     structuredData |-> r.structuredData,
     extractedData |-> [hasText |-> TextLength(r.extractedData) > 0,
                        textPreview |-> TextPreview(r.extractedData)],
     docSource |-> r.docSource, groqSource |-> r.groqSource,
     storageLocation |-> r.storageLocation]

\* the complete record
FullRecord(r) ==
    [op |-> "get_full", code |-> 200,
     description |-> r.description, patientName |-> r.patientName,
     patientPhone |-> r.patientPhone, fileUrl |-> r.fileUrl,
     structuredData |-> r.structuredData,
     extractedData |-> r.extractedData,
     docSource |-> r.docSource, groqSource |-> r.groqSource,
     storageLocation |-> r.storageLocation]

GetUserHealthRecords ==
    /\ Alive
    /\ UNCHANGED agent
    /\ ext.requests < MaxRequests
    /\ \E user \in Users :
          /\ req' = Request("list", user)
          /\ resp' = ListAnswer(rec, user)
    /\ ext' = [ext EXCEPT !.requests = @ + 1]
    /\ sent' = NoneSent
    /\ UNCHANGED <<rec, fs, s3, calls, up, sq, vq>>

GetHealthRecordById ==
    /\ Alive
    /\ UNCHANGED agent
    /\ ext.requests < MaxRequests
    /\ \E user \in Users :
          /\ req' = Request("get", user)
          /\ resp' = IF ~Exists THEN Answer("get", 404)
                     ELSE IF ~Authorized(rec, user) THEN Answer("get", 403)
                     ELSE SimplifiedRecord(rec)
    /\ ext' = [ext EXCEPT !.requests = @ + 1]
    /\ sent' = NoneSent
    /\ UNCHANGED <<rec, fs, s3, calls, up, sq, vq>>

GetFullHealthRecordById ==
    /\ Alive
    /\ UNCHANGED agent
    /\ ext.requests < MaxRequests
    /\ \E user \in Users :
          /\ req' = Request("get_full", user)
          /\ resp' = IF ~Exists THEN Answer("get_full", 404)
                     ELSE IF ~Authorized(rec, user)
                     THEN Answer("get_full", 403)
                     ELSE FullRecord(rec)
    /\ ext' = [ext EXCEPT !.requests = @ + 1]
    /\ sent' = NoneSent
    /\ UNCHANGED <<rec, fs, s3, calls, up, sq, vq>>

----------------------------------------------------------------------------

Next ==
    \/ UploadStart \/ UploadInitiate \/ UploadPoll \/ UploadFinalFetch
    \/ UploadStructure \/ UploadAnalyze \/ UploadArchive \/ UploadFinalize
    \/ VerifyStart \/ VerifyCall
    \/ StatusStart \/ StatusFetch
    \/ DeleteHealthRecord
    \/ GetUserHealthRecords
    \/ GetHealthRecordById \/ GetFullHealthRecordById
    \/ CallProgress

Spec == Init /\ [][Next]_vars

\* the host asks the process to stop.  server.js installs no signal handler
\* and the handlers consult no shutdown state: the process is ended by the
\* host, at once (default action of the signal: Kill is the next step) or,
\* where the default action does not apply to it (the process is PID 1 of
\* its container), after it has gone on running for a while.
BeginShutdown ==
    /\ ext.host = "running"
    /\ ext' = [ext EXCEPT !.host = "stopping"]
    /\ resp' = NoResp
    /\ req' = NoReq
    /\ sent' = NoneSent
    /\ UNCHANGED <<rec, fs, s3, calls, up, sq, vq, agent>>

\* the host ends the process
Kill ==
    /\ ext.host = "stopping"
    /\ ext' = [ext EXCEPT !.host = "killed"]
    /\ resp' = NoResp
    /\ req' = NoReq
    /\ sent' = NoneSent
    /\ UNCHANGED <<rec, fs, s3, calls, up, sq, vq, agent>>

\* initiateVerificationCall for record r, one awaited request per action; a
\* rejected request ends the initiation

\* Step 1: PATCH update-agent, voice_id
UpdateVoice(r) ==
    /\ agent.pc[r] = "start"
    /\ \E ok \in BOOLEAN :
          agent' = [agent EXCEPT !.pc[r] = IF ok THEN "voice" ELSE "failed"]

\* Step 2: PATCH update-retell-llm, general_prompt
UpdatePrompt(r) ==
    /\ agent.pc[r] = "voice"
    /\ \E ok \in BOOLEAN :
          agent' = [agent EXCEPT
                      !.pc[r] = IF ok THEN "prompt" ELSE "failed",
                      !.prompt = IF ok
                                 THEN generateVerificationPrompt(Documents[r])
                                 ELSE @]

\* Step 3: PATCH update-agent, max_call_duration_ms
UpdateMaxDuration(r) ==
    /\ agent.pc[r] = "prompt"
    /\ \E ok \in BOOLEAN :
          agent' = [agent EXCEPT !.pc[r] = IF ok THEN "duration" ELSE "failed"]

\* Step 4: POST create-phone-call: the call runs the agent as it is now
CreatePhoneCall(r) ==
    /\ agent.pc[r] = "duration"
    /\ \E ok \in BOOLEAN :
          agent' = [agent EXCEPT
                      !.pc[r] = IF ok THEN "created" ELSE "failed",
                      !.script[r] = IF ok THEN agent.prompt ELSE @]

AgentNext ==
    /\ \E r \in Records :
          \/ UpdateVoice(r) \/ UpdatePrompt(r)
          \/ UpdateMaxDuration(r) \/ CreatePhoneCall(r)
    /\ UNCHANGED <<rec, fs, s3, calls, up, sq, vq, resp, ext, req, sent>>

\* initiations for different records, running side by side
AgentSpec == Init /\ [][AgentNext]_vars

HostNext == Next \/ BeginShutdown \/ Kill

\* the program on a host that may shut down
HostSpec == Init /\ [][HostNext]_vars

\* every awaited request of the pipeline settles, so the handler goes on
FairSpec == Spec /\ WF_vars(Upload)

\* one upload request and the call platform, with no other request served
UploadNext == Upload \/ CallProgress

UploadSpec == Init /\ [][UploadNext]_vars /\ WF_vars(Upload)

----------------------------------------------------------------------------
(* Properties *)

Terminal == {"processing_complete", "verification_complete"}

NoPhoneGiven == up.phone \in {"", " "}

\* C1: an accepted upload without a patient phone (absent, empty or blank)
\* never requests a call nor a call status, and its pipeline goes on to the
\* final update, which writes a terminal processingStatus.
C1_NoPhoneNoCall ==
    /\ [](NoPhoneGiven =>
            /\ up.initiations = 0 /\ up.verificationCallId = 0
            /\ up.loopFetches = 0 /\ up.finalFetches = 0
            /\ up.pc \notin {"initiate", "poll", "final"})
    /\ [][(NoPhoneGiven /\ up.pc = "finalize" /\ up'.pc = "done" /\ Exists)
            => (rec'.processingStatus \in Terminal /\ up'.code = 201)]_vars
    /\ ((NoPhoneGiven /\ up.pc \notin {"idle", "done"})
            ~> (up.pc = "done" /\ up.finalStatus \in Terminal))

C1_Witness ==
    /\ up.pc = "done" /\ up.phone = " " /\ up.code = 201
    /\ Exists /\ rec.processingStatus = "processing_complete"
    /\ rec.vc.status = "not_initiated"

VcRank(status) ==
    CASE status = "not_initiated" -> 0
      [] status \in {"registered", "ongoing"} -> 1
      [] OTHER -> 2

\* C2: whatever sequence of uploads, initiateCallVerification and
\* getCallVerificationStatus requests is served, the stored
\* verificationCall.status of a record never goes back in the order
\* not_initiated, then registered or ongoing, then ended or error.
C2_StatusNeverRegresses ==
    [][(Exists /\ Exists')
         => VcRank(rec'.vc.status) >= VcRank(rec.vc.status)]_vars

\* the most iterations the ceiling leaves room for
MaxIterations == MaxWaitTime \div PollInterval

\* C3: the time spent in the polling loop never exceeds the three-minute
\* ceiling (as first stated).
C3_PollWithinCeiling == up.elapsed <= MaxWaitTime

\* C3: no iteration of the polling loop starts once the ceiling has
\* elapsed, so the loop makes at most one status fetch per 5-second wait
\* the ceiling has room for and ends less than one iteration (a wait and its
\* fetch) after the ceiling; a single further fetch follows a loop that
\* stopped without seeing the call end.
C3_PollBounded ==
    /\ up.pc = "poll" => up.elapsed < MaxWaitTime
    /\ up.loopFetches <= MaxIterations
    /\ up.elapsed < MaxWaitTime + PollInterval + FetchLatency
    /\ up.finalFetches <= 1
    /\ up.finalFetches = 1 => up.pc # "poll"

C3_Witness ==
    /\ up.pc = "final"
    /\ up.elapsed > MaxWaitTime
    /\ up.loopFetches = MaxIterations

\* C4: when the extraction service failed, the stored record carries
\* "mock" as the source of its extraction step, and the upload still ends
\* in a terminal processingStatus.
C4_MockSourceOnFailure ==
    /\ (Exists /\ rec.extractedData \in {getMockPdfData, getMockHandwrittenData})
          => rec.docSource = "mock"
    /\ (up.pc = "done" /\ up.code = 201) => up.finalStatus \in Terminal

\* C5: when the structuring service failed (request error, timeout or
\* unparsable answer), the structuredData that is stored is present and
\* carries an explicit error marker, and archival has run before it is
\* stored.
C5_ErrorMarkerOnFailure ==
    /\ (up.pc = "finalize" /\ up.structuredData.kind # "groq")
          => (up.structuredData.error /\ Truthy(up.fileUrl))
    /\ (Exists /\ rec.structuredData.kind \notin {"unset", "groq"})
          => rec.structuredData.error

NameFix == Correction("patientName", "Robert")

HasCorrection(r, c) ==
    \E i \in DOMAIN r.vc.corrections : r.vc.corrections[i] = c

\* C6: once a patientName correction of a transcript analysis is stored on
\* the record, patientName holds the corrected name and so does
\* structuredData.patient.name when the record has one; a correction of
\* another field is kept in verificationCall.corrections only.
C6_NameCorrectionMirrored ==
    (Exists /\ HasCorrection(rec, NameFix))
      => /\ rec.patientName = NameFix.correct
         /\ (rec.structuredData # NoSD /\ rec.structuredData.patient # NoPatient)
               => rec.structuredData.patient.name = NameFix.correct

\* the step that answers an owner's delete request
OwnerDelete ==
    /\ Exists
    /\ ext'.requests = ext.requests + 1
    /\ resp'.op = "delete"
    /\ resp'.code # 403

\* C7: the owner's delete of a record archived in the remote store issues
\* exactly one remote delete for it, and the record is removed and the
\* request answered 200 whether that delete succeeds or fails.
C7_RemoteDeleteOnce ==
    [][(OwnerDelete /\ IncludesAmazonaws(rec.fileUrl))
         => /\ ext'.s3Deletes = ext.s3Deletes + 1
            /\ rec' = NoRec
            /\ resp'.code = 200
            /\ fs' = fs]_vars

C7_Witness ==
    /\ resp = Answer("delete", 200)
    /\ rec = NoRec
    /\ ext.s3Deletes = 1
    /\ S3Location \in s3

\* C8: the owner's delete of a record whose file was kept on the local
\* disk removes that file, issues no remote delete and removes the record.
C8_LocalFileRemoved ==
    [][(OwnerDelete /\ rec.fileUrl = LocalFileUrl /\ LocalFilePath \in fs)
         => /\ LocalFilePath \notin fs'
            /\ ext'.s3Deletes = ext.s3Deletes
            /\ rec' = NoRec]_vars

LifecycleStates ==
    {"uploaded", "document_ai_complete", "verification_initiated",
     "verification_ended", "verification_complete", "processing_complete"}

\* the place of a stored value in the lifecycle (a call that ended without
\* transcript is placed with the ended calls)
PsRank(status) ==
    CASE status = "uploaded" -> 0
      [] status = "document_ai_complete" -> 1
      [] status = "verification_initiated" -> 2
      [] status \in {"verification_ended",
                     "verification_ended_no_transcript"} -> 3
      [] OTHER -> 4

\* C9: no write of processingStatus, by the upload pipeline,
\* initiateCallVerification or getCallVerificationStatus, moves a record
\* backward in the lifecycle order.
C9_LifecycleNeverBackward ==
    [][(Exists /\ Exists')
         => PsRank(rec'.processingStatus) >= PsRank(rec.processingStatus)]_vars

\* C10: the processingStatus of a stored record is always one of the six
\* lifecycle states.
C10_SixLifecycleStates ==
    Exists => rec.processingStatus \in LifecycleStates

ValidPhone == "+10000000000"

\* C11: an accepted upload, whatever the extraction, call initiation, call
\* status, structuring, transcript analysis and archival requests answer,
\* goes on to the final update, which writes a terminal processingStatus,
\* and is answered with success (201).
C11_FailSoft ==
    /\ [][(up.pc = "finalize" /\ up'.pc = "done")
            => /\ Exists'
               /\ rec'.processingStatus \in Terminal
               /\ up'.code = 201]_vars
    /\ (up.pc \notin {"idle", "done"})
          ~> (up.pc = "done" /\ up.code = 201 /\ up.finalStatus \in Terminal)

\* every service has failed: mock extraction, no call, mock structuring,
\* file kept locally
C11_Witness ==
    /\ up.pc = "done" /\ up.code = 201 /\ up.phone = ValidPhone
    /\ Exists
    /\ rec.extractedData = getMockPdfData
    /\ rec.vc.status = "not_initiated"
    /\ rec.structuredData.kind = "mock"
    /\ rec.fileUrl = LocalFileUrl
    /\ rec.processingStatus = "processing_complete"

\* C12: the final update of an upload writes verification_complete exactly
\* when a call transcript was obtained (and then the analysis has been run
\* on it), and processing_complete in every other case.
C12_FinalStatusIffTranscript ==
    /\ [](up.pc \in {"archive", "finalize"}
            => (up.analyzed <=> up.callTranscript # "none"))
    /\ [][(up.pc = "finalize" /\ up'.pc = "done")
            => /\ up'.finalStatus = IF up.callTranscript # "none"
                                    THEN "verification_complete"
                                    ELSE "processing_complete"
               /\ Exists => rec'.processingStatus = up'.finalStatus]_vars

C12_Witness ==
    /\ up.pc = "done" /\ up.finalStatus = "verification_complete"
    /\ Exists
    /\ rec.processingStatus = "verification_complete"
    /\ rec.vc.transcript = "text"

\* the initiation of this upload has raised
InitiationFailed == up.initiations = 1 /\ up.verificationCallId = 0

\* C13: when the call initiation of an upload raises, no call is created
\* and the record is left as it was (verificationCall.status not_initiated,
\* no callId); no status fetch is made, no later step of the pipeline
\* touches verificationCall, and the pipeline goes on through structuring
\* and archival to a final update that writes processing_complete.
C13_InitiationFailureSkipsCall ==
    /\ [](InitiationFailed
            => /\ up.loopFetches = 0 /\ up.finalFetches = 0
               /\ up.callTranscript = "none" /\ ~up.analyzed
               /\ up.pc \in {"structure", "archive", "finalize"})
    /\ [][(up.pc = "initiate" /\ up'.pc # "initiate" /\ calls' = calls)
            => /\ rec' = rec
               /\ up'.verificationCallId = 0
               /\ up'.pc = "structure"]_vars
    /\ [][(InitiationFailed /\ up' # up /\ Exists /\ Exists')
            => rec'.vc = rec.vc]_vars
    /\ [][(InitiationFailed /\ up'.pc = "done")
            => /\ up'.finalStatus = "processing_complete"
               /\ Exists => (rec'.processingStatus = "processing_complete"
                              /\ up'.code = 201)]_vars
    /\ InitiationFailed
          ~> (up.pc = "done" /\ up.finalStatus = "processing_complete")

C13_Witness ==
    /\ up.pc = "finalize" /\ InitiationFailed /\ up.phone = ValidPhone
    /\ Exists
    /\ rec.vc.status = "not_initiated" /\ rec.vc.callId = 0
    /\ up.structuredData # NoSD /\ Truthy(up.fileUrl)

Includes(requests, name) == \E i \in DOMAIN requests : requests[i] = name

Rejected(requests) ==
    \E i \in DOMAIN requests, k \in DOMAIN InitiationRejections :
        requests[i] = InitiationRejections[k]

CallCreated ==
    \E c \in CallIds : calls[c].status = "none" /\ calls'[c].status # "none"

\* C14: initiateVerificationCall sends the create-phone-call request only
\* after the voice, prompt and maximum-duration updates, in that order, have
\* all been accepted; with an empty phone it raises before any request, and
\* when an update (or the call creation) is rejected it raises at once and
\* no call is created.
C14_CallAfterConfiguration ==
    /\ [](\A f \in FailurePoints, c \in CallIds :
             LET r == initiateVerificationCall("", f, c)
             IN  r.threw /\ r.requests = NoneSent /\ r.callId = 0)
    /\ []((Includes(sent, "create_phone_call")
             \/ Includes(sent, "create_phone_call_rejected"))
            => /\ Len(sent) = Len(InitiationSteps)
               /\ SubSeq(sent, 1, 3) = SubSeq(InitiationSteps, 1, 3))
    /\ [][Rejected(sent')
            => /\ Rejected(<<sent'[Len(sent')]>>)
               /\ ~CallCreated
               /\ rec' = rec
               /\ (up' # up => (up'.verificationCallId = 0
                                 /\ up'.pc = "structure"))
               /\ (vq' # vq => resp' = Answer("verify", 500))]_vars
    /\ [][CallCreated => sent' = InitiationSteps]_vars

C14_Witness ==
    /\ sent = <<"update_voice", "update_prompt",
                "update_max_duration_rejected">>
    /\ \A c \in CallIds : calls[c].status = "none"
    /\ up.pc = "structure" /\ up.initiations = 1

\* a request on the record by somebody who does not own it
NonOwnerRequest ==
    /\ Exists
    /\ req'.op \in {"get", "get_full", "delete", "verify", "status"}
    /\ req'.user # rec.user

\* C15: get, get full, delete, initiate verification and verification
\* status, when requested by somebody who does not own the record, answer
\* 403 with nothing of the record in the response, leave the record, the
\* local file and the archived object as they were, and make no request to
\* an external service.
C15_NonOwnerForbidden ==
    [][NonOwnerRequest
         => /\ resp' = Answer(req'.op, 403)
            /\ rec' = rec /\ fs' = fs /\ s3' = s3 /\ calls' = calls
            /\ sent' = NoneSent
            /\ ext'.s3Deletes = ext.s3Deletes
            /\ up' = up /\ sq' = sq /\ vq' = vq]_vars

C15_Witness ==
    /\ req = Request("delete", "other")
    /\ resp = Answer("delete", 403)
    /\ Exists /\ rec.fileUrl = S3Location /\ S3Location \in s3

\* STEP 5 has just fallen back to the local reference
ArchivalFailed == up.pc = "finalize" /\ ~up.archived

\* C16: when archival to the remote store fails, the step leaves the local
\* file and the remote store as they were, and the upload of a record that
\* is still stored ends with 201, fileUrl the local reference,
\* storageLocation "local" and the local file still on disk.
C16_ArchivalFailureFallsBackToLocal ==
    [][/\ (up.pc = "archive" /\ ArchivalFailed')
           => /\ LocalFilePath \in fs' /\ s3' = s3
              /\ up'.fileUrl = LocalFileUrl
       /\ (ArchivalFailed /\ Exists /\ up'.pc = "done")
           => /\ up'.code = 201
              /\ rec'.fileUrl = LocalFileUrl
              /\ rec'.storageLocation = "local"
              /\ LocalFilePath \in fs']_vars

C16_Witness ==
    /\ up.pc = "done" /\ up.code = 201
    /\ Exists /\ rec.fileUrl = LocalFileUrl /\ rec.storageLocation = "local"
    /\ LocalFilePath \in fs /\ S3Location \notin s3

\* the upload request answers in this step
UploadExits == up.pc # "done" /\ up'.pc = "done"

\* the received file is in the remote store and no longer on disk
ArchivedRemotely == S3Location \in s3 /\ LocalFilePath \notin fs

\* the received file is on disk and the record refers to it
RetainedLocally ==
    Exists /\ rec.fileUrl = LocalFileUrl /\ LocalFilePath \in fs

StatusAnswered == sq.pc = "fetch" /\ sq'.pc = "idle" /\ sq.doc = rec

\* C18: a status request by the owner on a stored non-terminal status
\* queries the call client and answers with the state the record has in the
\* store after the update (status, endTime, verificationComplete,
\* corrections, additionalInfo, summary, processingStatus); on a stored
\* terminal status it makes no client call.
C18_StatusReturnsStoredState ==
    [][/\ StatusAnswered
           => /\ Includes(sent', "get_call")
              /\ resp' = StatusAnswer(rec')
       /\ (/\ req'.op = "status" /\ Exists /\ Authorized(rec, req'.user)
           /\ rec.vc.callId # 0
           /\ rec.vc.status \notin {"registered", "ongoing"})
           => sent' = NoneSent /\ resp' = StatusAnswer(rec)]_vars

\* C19: a stored record that has structuredData also has extractedData, and
\* no operation on a stored record removes or replaces its extractedData.
C19_ExtractedBeforeStructured ==
    /\ []((Exists /\ rec.structuredData # NoSD) => rec.extractedData # NoData)
    /\ [][(Exists /\ Exists') => rec'.extractedData = rec.extractedData]_vars

C19_Witness ==
    /\ Exists /\ rec.structuredData # NoSD
    /\ rec.extractedData = getMockPdfData
    /\ rec.docSource = "google"

\* the final update of the upload pipeline, on a record still stored
FinalUpdate == up.pc = "finalize" /\ up'.pc = "done" /\ Exists

\* C20: the final update of the upload pipeline writes structuredData,
\* fileUrl, storageLocation and the final processingStatus in one step;
\* until the pipeline has ended the stored record has structuredData and
\* fileUrl unset; and no other step writes structuredData or the storage
\* reference of a stored record.
C20_FinalUpdateWritesTogether ==
    /\ []((Exists /\ up.pc # "done")
            => /\ rec.structuredData = NoSD
               /\ rec.fileUrl = "" /\ rec.storageLocation = "")
    /\ [][/\ FinalUpdate
               => /\ rec'.structuredData = up.structuredData
                  /\ rec'.structuredData # NoSD
                  /\ rec'.fileUrl = up.fileUrl /\ Truthy(rec'.fileUrl)
                  /\ rec'.storageLocation \in {"s3", "local"}
                  /\ rec'.processingStatus = FinalStatus(up.analyzed)
          /\ (/\ Exists /\ Exists'
              /\ \/ rec'.structuredData # rec.structuredData
                 \/ rec'.fileUrl # rec.fileUrl
                 \/ rec'.storageLocation # rec.storageLocation)
              => FinalUpdate]_vars

C20_Witness ==
    /\ up.pc = "done" /\ up.code = 201 /\ Exists
    /\ rec.structuredData # NoSD /\ rec.fileUrl = S3Location
    /\ rec.storageLocation = "s3"
    /\ rec.processingStatus = "verification_complete"

\* an upload request that fails validation: no file, a file that is not on
\* disk, or a type that is not supported (declared media type or extension)
InvalidUpload ==
    /\ req'.op = "upload"
    /\ \/ ~req'.hasFile
       \/ ~req'.onDisk
       \/ ~fileFilter(req'.mimetype)
       \/ req'.extension \notin SupportedExtensions

\* C21: an upload with no file, with a file missing on disk or with an
\* unsupported type is answered 400 before any external service is called,
\* creates no record and leaves no uploaded file in local storage.
C21_InvalidUploadRejected ==
    [][InvalidUpload
         => /\ up'.pc = "done" /\ up'.code = 400
            /\ sent' = NoneSent
            /\ rec' = rec
            /\ LocalFilePath \notin fs']_vars

\* the answers of the model that cannot be used: unparsable output or a
\* failed request
FailedAnalyses == {"unparsable", "request_failed"}

\* C22: for the call data of any call, when the model's answer is
\* unparsable or the request fails, the transcript analysis returns empty
\* corrections and a verification verdict of false.
C22_FailedAnalysisIsNegative ==
    \A c \in CallIds, outcome \in FailedAnalyses :
        LET result == processCallTranscript(getCallStatus(c), outcome)
        IN  result.corrections = <<>> /\ ~result.verificationSuccessful

\* STEP 4 of the upload has just received the analysis of the transcript
AnalysisReturned == up.pc = "analyze" /\ up'.pc = "archive"

\* C23: when the transcript analysis of an upload returns corrections, the
\* whole list, with the corrections that were not applied, is stored
\* unchanged and in order in verificationCall.corrections of the record.
C23_CorrectionsPersistedVerbatim ==
    [][(AnalysisReturned /\ Exists /\ up'.corrections # <<>>)
         => rec'.vc.corrections = up'.corrections]_vars

C23_Witness ==
    /\ Exists /\ up.pc = "archive"
    /\ Len(up.corrections) = 3
    /\ \E i \in 1..3 : ~Applicable(up.corrections[i])
    /\ rec.vc.corrections = up.corrections

\* the poll loop of the upload stops in this step
LoopStops == up.pc = "poll" /\ up'.pc # "poll"

\* C24: when the poll loop stops, the one additional status fetch comes
\* next exactly when no terminal status was observed in the loop; that
\* fetch is made once, and the pipeline fetches no status after it or after
\* a loop that observed a terminal status.
C24_OneFinalFetch ==
    [][/\ LoopStops
           => /\ up'.pc \in {"final", "structure"}
              /\ (up'.pc = "final") = ~up'.callEnded
       /\ (up.pc = "final" /\ up' # up)
           => /\ up'.pc = "structure" /\ up'.finalFetches = 1
              /\ sent' = <<"get_call">>
       /\ (up' # up /\ up.pc \notin {"poll", "final"})
           => ~Includes(sent', "get_call")]_vars

C24_Witness ==
    /\ up.pc = "structure" /\ up.verificationCallId # 0
    /\ ~up.callEnded /\ up.finalFetches = 1

\* the model counts the poll clock in seconds
Milliseconds(seconds) == seconds * 1000

\* C25: every call the upload pipeline polls was created under a maximum
\* call duration equal to the poll ceiling of the pipeline, three minutes.
C25_CeilingEqualsCallDuration ==
    up.pc \in {"poll", "final"}
        => /\ calls[up.verificationCallId].maxDuration
                 = Milliseconds(MaxWaitTime)
           /\ Milliseconds(MaxWaitTime) = 3 * 60 * 1000

C25_Witness ==
    /\ up.pc = "final"
    /\ calls[up.verificationCallId].status = "ongoing"
    /\ calls[up.verificationCallId].maxDuration = MaxCallDuration

\* C26: once the host has begun shutting down, an upload in the poll loop
\* fetches no further call status: the loop is left without waiting for the
\* call to end or for the ceiling.
C26_ShutdownCancelsPolling ==
    [][(ext.host = "stopping" /\ up.pc = "poll" /\ up' # up)
         => ~Includes(sent', "get_call")]_vars

\* the structuring request of the upload is made in this step
StructuringStarts == up.pc = "structure" /\ up'.pc # "structure"

\* C27: in an upload that obtained a call transcript, the structuring stage
\* starts only when the transcript has been analysed and its corrections
\* applied.
C27_AnalysisBeforeStructuring ==
    [][(StructuringStarts /\ up.callTranscript # "none") => up.analyzed]_vars

\* what an entry of the list may carry: ids, titles and presence flags
ListFields == {"_id", "title", "hasExtractedData", "hasStructuredData"}

\* C28: the list returns only ids, titles and presence flags; the single
\* read returns structuredData and a preview of the extracted text of at
\* most 300 characters that is never the whole text; the full read returns
\* every persisted field of the record.
C28_ThreeFidelityLevels ==
    [][/\ (resp'.op = "list" /\ resp'.code = 200)
           => \A i \in 1..Len(resp'.records) :
                  DOMAIN resp'.records[i] \subseteq ListFields
       /\ (resp'.op = "get" /\ resp'.code = 200)
           => /\ resp'.structuredData = rec.structuredData
              /\ resp'.extractedData.textPreview.length <= PreviewLimit
              /\ ~resp'.extractedData.textPreview.wholeText
       /\ (resp'.op = "get_full" /\ resp'.code = 200)
           => \A f \in DOMAIN rec :
                  f \in DOMAIN resp' /\ resp'[f] = rec[f]]_vars

RECURSIVE LastCorrect(_, _, _)
\* the value a patient field ends with: that of the last correction of the
\* field that can be applied, or the value it had
LastCorrect(corrections, field, value) ==
    IF corrections = <<>> THEN value
    ELSE LET c == corrections[Len(corrections)]
         IN  IF Applicable(c) /\ c.field = field THEN c.correct
             ELSE LastCorrect(SubSeq(corrections, 1, Len(corrections) - 1),
                              field, value)

\* C29: the allow-listed corrections returned by the transcript analysis of
\* an upload are written to the record whatever the verdict of the analysis
\* is; a verdict of false does not keep them from being written.
C29_CorrectionsAppliedWhateverVerdict ==
    [][(AnalysisReturned /\ Exists)
         => /\ rec'.patientName =
                  LastCorrect(up'.corrections, "patientName", rec.patientName)
            /\ rec'.patientPhone =
                  LastCorrect(up'.corrections, "patientPhone",
                              rec.patientPhone)]_vars

C29_Witness ==
    /\ Exists /\ up.pc = "archive"
    /\ ~up.completeCallData.callSuccessful
    /\ ~rec.vc.verificationComplete
    /\ \E i \in 1..Len(up.corrections) :
          /\ Applicable(up.corrections[i])
          /\ up.corrections[i].field = "patientPhone"
          /\ rec.patientPhone = up.corrections[i].correct
          /\ rec.patientPhone # up.phone

\* the upload pipeline asks the call platform for anything in this step
UploadRequestsCall ==
    /\ up' # up
    /\ \E i \in DOMAIN sent' :
          \E k \in DOMAIN InitiationSteps :
              sent'[i] \in {InitiationSteps[k], InitiationRejections[k]}

\* C30: the upload pipeline reaches the initiation of the call only through
\* the step that creates the record, and requests the call only then and
\* only for a patientPhone that is non-empty after trimming; when the call
\* is created, its id, its initial status "registered" and processingStatus
\* "verification_initiated" are stored on that record in the same step,
\* before the first poll.
C30_CallAfterRecordCreated ==
    [][/\ (up'.pc = "initiate" /\ up.pc # "initiate")
           => /\ ~Exists /\ Exists'
              /\ rec'.processingStatus = "document_ai_complete"
              /\ rec'.vc.callId = 0
       /\ UploadRequestsCall
           => /\ up.pc = "initiate"
              /\ Truthy(up.phone) /\ Trim(up.phone) # ""
       /\ (UploadRequestsCall /\ CallCreated)
           => /\ up'.verificationCallId # 0
              /\ calls[up'.verificationCallId].status = "none"
              /\ up'.pc = "poll" /\ up'.loopFetches = 0
              /\ Exists
                   => /\ rec'.vc.callId = up'.verificationCallId
                      /\ rec'.vc.status = "registered"
                      /\ rec'.processingStatus = "verification_initiated"]_vars

C30_Witness ==
    /\ up.pc = "poll" /\ up.loopFetches = 0
    /\ Includes(sent, "create_phone_call")
    /\ Exists /\ rec.vc.callId = up.verificationCallId
    /\ rec.vc.status = "registered"
    /\ rec.processingStatus = "verification_initiated"

\* C31: whenever the call of a record is created, the prompt the agent has
\* at that moment is the one generated from that record's data, whatever
\* other initiations run at the same time.
C31_CallUsesOwnPrompt ==
    \A r \in Records :
        agent.pc[r] = "created"
            => agent.script[r] = generateVerificationPrompt(Documents[r])

----------------------------------------------------------------------------
(* Upload pipeline and status requests on one record *)

\* a step that hands the transcript of the call to the Transcript Analyzer:
\* STEP 4 of the upload, or a status request that found the call ended
AnalysisStep ==
    \/ up.pc = "analyze" /\ up'.pc = "archive"
    \/ sq.pc = "fetch" /\ sent' = <<"get_call", "chat_completion">>

\* the transcript has been analysed before: by the upload, or by a status
\* request, which leaves the summary of the analysis on the record
AlreadyAnalysed ==
    \/ up.analyzed
    \/ up.finalStatus = "verification_complete"
    \/ Exists /\ rec.vc.summary # ""

\* C32: under any interleaving of the upload pipeline with status requests on
\* the same record the transcript of the call is analysed, and its corrections
\* applied, at most once.
C32_AnalysedAtMostOnce == [][AnalysisStep => ~AlreadyAnalysed]_vars

----------------------------------------------------------------------------
(* One verification call per record *)

\* calls of the record that the platform has registered or is conducting
CallsInProgress ==
    {c \in CallIds : calls[c].status \in {"registered", "ongoing"}}

\* a verification request arriving while the stored status is in progress
VerifyWhileInProgress ==
    /\ req'.op = "verify"
    /\ Exists
    /\ Authorized(rec, req'.user)
    /\ rec.vc.status \in {"registered", "ongoing"}

\* C33: a verification request made while the stored status is registered or
\* ongoing is answered 400 and creates no call, and under any interleaving of
\* verification requests with the upload pipeline no call is created for the
\* record while another of its calls is registered or ongoing.
C33_OneCallInProgress ==
    [][/\ VerifyWhileInProgress
          => resp'.code = 400 /\ calls' = calls /\ vq'.pc = "idle"
       /\ CallCreated => CallsInProgress = {}]_vars

----------------------------------------------------------------------------
(* The two paths that process an ended call *)

\* what the platform reports for a call that is over
EndedCalls ==
    {cs \in [status : {"ended", "error"},
             transcript : TranscriptKinds \cup {"none"},
             callSuccessful : BOOLEAN] :
        cs.transcript = "none" => ~cs.callSuccessful}

\* uploadHealthRecord from the poll that sees the call over to the final
\* update: the ended call is stored when it has a transcript, the transcript
\* is analysed, corrections go to the record and to the structured data, and
\* the final status depends on there having been an analysis
UploadPath(r, callStatus, outcome) ==
    LET hasTranscript == callStatus.transcript # "none"
        r1 == IF hasTranscript THEN WithEndedCall(r, callStatus) ELSE r
        result == processCallTranscript(callStatus, outcome)
        some == hasTranscript /\ Len(result.corrections) > 0
        r2 == IF some
              THEN WithAnalysis(ApplyToRecord(r1, result.corrections), result)
              ELSE r1
    IN  [r2 EXCEPT !.structuredData =
                       IF some THEN ApplyToStructured(@, result.corrections)
                       ELSE @,
                   !.processingStatus = FinalStatus(hasTranscript)]

\* getCallVerificationStatus on a record whose stored status is not terminal
StatusPath(r, callStatus, outcome) == StatusUpdate(r, r, callStatus, outcome)

\* the fields of the record the two paths are compared on
Compared(r) ==
    [patientName |-> r.patientName, patientPhone |-> r.patientPhone,
     description |-> r.description, structuredData |-> r.structuredData,
     verificationCall |-> r.vc, processingStatus |-> r.processingStatus]

\* C34: given the same call status and the same result of the transcript
\* analysis, the upload pipeline and the lazy refresh of the status request
\* leave the record with the same patientName, patientPhone, description,
\* structuredData, verificationCall fields and processingStatus.
C34_PathsEquivalent ==
    Exists /\ rec.vc.status \in {"registered", "ongoing"}
        => \A cs \in EndedCalls, o \in AnalyzerOutcomes :
               Compared(UploadPath(rec, cs, o)) = Compared(StatusPath(rec, cs, o))

----------------------------------------------------------------------------
(* What verification_complete implies *)

\* C35: in every reachable state a record whose processingStatus is
\* verification_complete has a stored call status of ended or error and a
\* stored transcript.
C35_CompleteHasEndedCallAndTranscript ==
    Exists /\ rec.processingStatus = "verification_complete"
        => /\ rec.vc.status \in {"ended", "error"}
           /\ rec.vc.transcript # "none"

----------------------------------------------------------------------------
(* The call status the upload leaves on the record *)

\* the upload issues its final update after having observed its call: the
\* poll loop saw it over, or the fetch after the loop returned its status
FinishesAfterObservedCall ==
    /\ up.pc = "finalize" /\ up'.pc = "done"
    /\ Exists
    /\ up.completeCallData # NoCallData

\* C36: when the upload pipeline finishes after a call was initiated, the
\* stored verificationCall.status is the last call status the pipeline
\* observed; a call observed as ended or error is stored as such whether or
\* not it produced a transcript.
C36_StoredStatusIsLastObserved ==
    [][FinishesAfterObservedCall
          => rec'.vc.status = up.completeCallData.status]_vars

----------------------------------------------------------------------------
(* What is persisted of the analysis *)

\* the verification fields of record r are those the Transcript Analyzer
\* returned for this outcome (nothing is returned when the request fails)
HoldsAnalysis(r, outcome) ==
    LET a == processTranscript(outcome)
    IN  ~a.threw
            => /\ r.vc.verificationComplete = a.verificationComplete
               /\ r.vc.additionalInfo = a.additionalInfo
               /\ r.vc.summary = a.summary

\* the call a pending status request is about to find ended with a transcript
StatusWillAnalyse ==
    /\ sq.pc = "fetch"
    /\ Exists
    /\ LET cs == getCallStatus(sq.doc.vc.callId)
       IN  /\ cs.status = "ended"
           /\ cs.transcript # "none"
           /\ cs.status # sq.doc.vc.status

\* C37: whenever a transcript is analysed for a record, by STEP 4 of the
\* upload or by a status request, the persisted verificationComplete,
\* additionalInfo and summary are the verdict, freeform info and summary the
\* Transcript Analyzer returned, whether or not it returned corrections.
C37_AnalysisPersisted ==
    /\ up.pc = "analyze" /\ Exists
          => \A o \in AnalyzerOutcomes :
                 HoldsAnalysis(
                     AfterAnalysis(rec,
                         processCallTranscript(up.completeCallData, o)), o)
    /\ StatusWillAnalyse
          => \A o \in AnalyzerOutcomes :
                 HoldsAnalysis(
                     StatusUpdate(rec, sq.doc,
                         getCallStatus(sq.doc.vc.callId), o), o)

----------------------------------------------------------------------------
(* Status requests on a finished call *)

\* a status request of the owner for a record whose stored call status is
\* terminal
TerminalStatusRequest ==
    /\ req'.op = "status"
    /\ Exists
    /\ Authorized(rec, req'.user)
    /\ rec.vc.callId # 0
    /\ rec.vc.status \in {"ended", "error"}

----------------------------------------------------------------------------
(* Verification requests answered with an error *)

\* initiateCallVerification answers 400 or 500
VerifyAnswersError == resp'.op = "verify" /\ resp'.code \in {400, 500}

\* the record as the request found it: the document of findById once the
\* handler is past its checks, the stored record while it makes them
BeforeRequest == IF vq.pc = "call" THEN vq.doc ELSE rec

\* C39: whenever initiateCallVerification answers with an error (400 or 500,
\* a failed call initiation included) it has left the stored record as it
\* was: the answering step writes nothing, and the patient phone, the one
\* field the handler writes before the call is initiated, is the one the
\* record had when the request read it.
C39_ErrorLeavesRecordUnchanged ==
    [][VerifyAnswersError
          => /\ rec' = rec
             /\ Exists => rec.patientPhone = BeforeRequest.patientPhone]_vars

============================================================================
